---- MODULE Spec2Model ----
(***************************************************************************)
(* Release pipeline of ddworken/hishtory: the release-validation script   *)
(* (scripts/actions-validate.py), the macOS signing script                *)
(* (scripts/actions-sign.py), the stand-alone signature audit             *)
(* (scripts/actions-validate-macos-signature.py) and the installer        *)
(* (backend/web/landing/www/install.py).                                  *)
(*                                                                         *)
(* Text (file names, tool output, messages) is a sequence of tokens; the  *)
(* Python test `needle in hay` is a search for a contiguous run of        *)
(* tokens, string concatenation is \o.                                    *)
(***************************************************************************)
EXTENDS Integers, Sequences, FiniteSets, TLC

VARIABLES
    \* ---- actions-validate.py
    vpc,            \* position of main: "sig", "slsa_enter", "slsa_loop", "status", "done", "failed"
    vi,             \* index of the loop over ALL_FILES (main's loop, validate_slsa's loop)
    vv,             \* which verifier / status call is current (1 or 2)
    present,        \* the paths that exist on the validation host
    kind,           \* what the content of each executed binary is (see Kinds)
    codesignOnHost, \* shutil.which('codesign') is not None
    lastTool,       \* exit status and combined output of the last tool invocation
    vexc,           \* the exception that ended the run (type "None" while running)
    printed,        \* what the last print of diagnostics wrote to stdout
    calls,          \* the argv of every subprocess started, in order
    log,            \* the checks executed so far, in order, with their outcome
    \* ---- actions-sign.py
    spc,            \* position of main: "wait", "poll", "sleep", "write", "precheck", "shell", "done", "failed"
    si,             \* which of the two macOS artifacts (lines 9-10, 18-19) is current
    now,            \* the wall clock, time.time(), in seconds
    startTime,      \* waitUntilPublished's local startTime
    r,              \* waitUntilPublished's local r, the last response
    polls,          \* requests sent by the current call of waitUntilPublished
    written,        \* every write of waitUntilPublished so far: path and content
    sfiles,         \* the working directory of the signing job: path -> content
    sexc,           \* the exception that ended the signing run
    shNext,         \* the next command of the shell script of lines 22-31
    shFailed,       \* the first command of that script that exited non-zero (0: none)
    codesigned,     \* the artifacts codesign was run on, in order
    prechecked,     \* the artifacts notAscii returned for
    preSign,        \* artifact -> its bytes just before codesign ran on it
    \* ---- install.py
    ipc,            \* position of the script: "options", "resolve", "download", "write",
                    \* "run", "finish", "exited"
    system,         \* platform.system()
    machine,        \* platform.machine()
    tmpdirEnv,      \* os.environ.get('TMPDIR', '')
    tmpNoexec,      \* /tmp is mounted noexec
    selectedKey,    \* the key of download_options the script subscripted
    download_url,   \* the script's download_url
    downloaded,     \* the script's hishtory_binary: the bytes read from download_url
    tmpFile,        \* the content of tmpFilePath
    executed,       \* the command lines given to os.system, in order
    exitCode,       \* the value os.system(cmd) returned
    iprinted,       \* what the script printed
    iexc,           \* the exception that ended the script
    iexit,          \* the exit code of the installer process (-1: still running)
    \* ---- actions-validate-macos-signature.py next to validate_macos_signature
    apc,            \* which of the two audits have been applied to the input
    aOnHost,        \* shutil.which('codesign') is not None
    aRes,           \* what codesign answers for the audited file
    aStandalone,    \* outcome of actions-validate-macos-signature.py main
    aInValidate,    \* outcome of actions-validate.py validate_macos_signature
    \* ---- the two prechecks, notAscii and assertPresentAndNotAscii, on one input
    ppc,            \* which of the two prechecks have been applied to the input
    pFn,            \* the path given to the precheck
    pContent,       \* what is at that path (Absent: nothing)
    pSign,          \* what notAscii of actions-sign.py raised (NoExc: it returned)
    pValidate       \* what assertPresentAndNotAscii of actions-validate.py raised

validateVars == <<vpc, vi, vv, present, kind, codesignOnHost, lastTool, vexc, printed, calls, log>>

signVars == <<spc, si, now, startTime, r, polls, written, sfiles, sexc, shNext, shFailed,
              codesigned, prechecked, preSign>>

installVars == <<ipc, system, machine, tmpdirEnv, tmpNoexec, selectedKey, download_url,
                 downloaded, tmpFile, executed, exitCode, iprinted, iexc, iexit>>

auditVars == <<apc, aOnHost, aRes, aStandalone, aInValidate>>

precheckVars == <<ppc, pFn, pContent, pSign, pValidate>>

vars == <<validateVars, signVars, installVars, auditVars, precheckVars>>

(***************************************************************************)
(* Text helpers                                                            *)
(***************************************************************************)
\* Python `needle in hay` on strings
Contains(hay, needle) ==
    \E i \in 0..(Len(hay) - Len(needle)) :
        SubSeq(hay, i + 1, i + Len(needle)) = needle

\* the lines of `pool` whose index is in I, in pool order
RECURSIVE Pick(_, _, _)
Pick(pool, I, k) ==
    IF k > Len(pool) THEN <<>>
    ELSE (IF k \in I THEN <<pool[k]>> ELSE <<>>) \o Pick(pool, I, k + 1)

\* every text made of a selection of the lines of `pool`
TextsOver(pool) == { Pick(pool, I, 1) : I \in SUBSET (1..Len(pool)) }

\* An exception: its type, its message (str(e)), the captured output it
\* carries (CalledProcessError.stdout) and the statement that raised it
\* (the innermost frame of its traceback).
NoExc == [type |-> "None", msg |-> <<>>, stdout |-> <<>>, site |-> "none"]
\* `assert cond` raises AssertionError(), `assert cond, m` AssertionError(m)
AssertionError(msg, site) ==
    [type |-> "AssertionError", msg |-> msg, stdout |-> <<>>, site |-> site]
PyException(msg, site) ==
    [type |-> "Exception", msg |-> msg, stdout |-> <<>>, site |-> site]
\* subprocess.CalledProcessError: str() names the command and the status,
\* the captured output is the attribute .stdout
CalledProcessError(argv, out, site) ==
    [type |-> "CalledProcessError",
     msg |-> <<"Command ">> \o argv \o <<" returned non-zero exit status">>,
     stdout |-> out, site |-> site]
\* the program could not be exec'ed at all (not a native executable)
OSError(argv, site) ==
    [type |-> "OSError", msg |-> <<"Exec format error: ">> \o argv,
     stdout |-> <<>>, site |-> site]

\* the answer of the last tool a check ran (ran = FALSE: it ran none)
NoTool == [ran |-> FALSE, exit |-> 0, out |-> <<>>]
Ran(res) == [ran |-> TRUE, exit |-> res.exit, out |-> res.out]

\* the outcome of a function that has not been called
NotRun == [exc |-> NoExc, started |-> <<>>, print |-> <<>>, tool |-> NoTool]

(***************************************************************************)
(* actions-validate.py                                                     *)
(***************************************************************************)
ALL_FILES ==
    << <<"hishtory-", "linux", "-amd64">>,
       <<"hishtory-", "linux", "-arm64">>,
       <<"hishtory-", "darwin", "-amd64">>,
       <<"hishtory-", "darwin", "-arm64">> >>

AllFilesSet == { ALL_FILES[i] : i \in 1..Len(ALL_FILES) }

IsDarwin(filename) == Contains(filename, <<"darwin">>)

AttestationFile(filename) == filename \o <<".intoto.jsonl">>
UnsignedFile(filename) == filename \o <<"-unsigned">>

\* os.path.expanduser("~/.hishtory/hishtory")
Expanduser(path) ==
    IF Len(path) > 0 /\ Head(path) = "~" THEN <<"/Users/runner">> \o Tail(path) ELSE path

InstalledBinary == Expanduser(<<"~", "/.hishtory/hishtory">>)
DotSlashAmd64 == <<"./">> \o ALL_FILES[3]

\* the two binaries main() validates with, in call order (lines 81-82, 84-85)
Verifiers == <<DotSlashAmd64, InstalledBinary>>
\* deep_validation of the two validate_hishtory_status calls (lines 84-85)
DeepValidation == <<TRUE, FALSE>>

\* the file a path names: "./x" and "x" are the same file of the working directory
Canon(path) == IF Len(path) > 0 /\ Head(path) = "./" THEN Tail(path) ELSE path

VersionFile == <<"VERSION">>

HostPaths ==
    AllFilesSet
    \cup { AttestationFile(f) : f \in AllFilesSet }
    \cup { UnsignedFile(f) : f \in { g \in AllFilesSet : IsDarwin(g) } }
    \cup { InstalledBinary, VersionFile }

\* os.path.exists
Exists(path) == Canon(path) \in present

\* What a downloaded file can hold: a native executable, an ASCII error page
\* (HTML), or text that is not pure ASCII (a UTF-8 error page).
Kinds == {"macho", "ascii", "utf8"}

\* the output of file(1) on `fn` holding content of kind k
FileOutput(fn, k) ==
    fn \o <<": ">> \o
    CASE k = "macho" -> <<"Mach-O 64-bit executable">>
      [] k = "ascii" -> <<"HTML document, ", "ASCII text", ", with very long lines">>
      [] k = "utf8"  -> <<"HTML document, ", "Unicode text, UTF-8 text">>
      [] k = "elf"   -> <<"ELF 64-bit LSB executable">>
      [] k = "empty" -> <<"empty">>

\* the kernel can exec the file
Executable(k) == k = "macho"

\* ---- validate_macos_signature (lines 44-51)
SIGNER == <<"Authority=", "Developer ID Application: David Dworken (QUXLNCT7FA)">>
INTERMEDIATE == <<"Authority=", "Developer ID Certification Authority">>
ROOT_CA == <<"Authority=", "Apple Root CA">>
TEAM == <<"TeamIdentifier=", "QUXLNCT7FA">>

RequiredPhrases == <<SIGNER, INTERMEDIATE, ROOT_CA, TEAM>>

\* lines `codesign -dv --verbose=4` can print: the four expected ones, and
\* the same keys under another identity
CodesignLines ==
    << SIGNER \o <<"\n">>, INTERMEDIATE \o <<"\n">>, ROOT_CA \o <<"\n">>, TEAM \o <<"\n">>,
       <<"Authority=", "Developer ID Application: Mallory (EVIL000000)", "\n">>,
       <<"TeamIdentifier=", "EVIL000000", "\n">> >>

RECURSIVE Flatten(_)
Flatten(lines) == IF lines = <<>> THEN <<>> ELSE Head(lines) \o Flatten(Tail(lines))

CodesignTexts == { Flatten(t) : t \in TextsOver(CodesignLines) }

\* what codesign can answer for `filename`: it exits non-zero on a file that
\* is absent or is no Mach-O binary
CodesignResults(isMachO) ==
    { ret \in [exit : {0, 1}, out : CodesignTexts] : ret.exit = 0 => isMachO }

\* `filename` is there and, as far as the host knows its content, a Mach-O binary
IsMachO(filename) ==
    /\ Exists(filename)
    /\ (Canon(filename) \in DOMAIN kind => kind[Canon(filename)] = "macho")

\* an argv is a list of arguments, each a text; Flatten joins them
CodesignArgv(filename) == << <<"codesign">>, <<"-dv">>, <<"--verbose=4">>, filename >>

\* SignatureAsserts without the assert of line 50
SignatureAssertsNoRoot(out) ==
    IF ~Contains(out, SIGNER) THEN AssertionError(<<>>, "assert_signer")
    ELSE IF ~Contains(out, INTERMEDIATE) THEN AssertionError(<<>>, "assert_intermediate")
    ELSE IF ~Contains(out, TEAM) THEN AssertionError(<<>>, "assert_team")
    ELSE NoExc

\* lines 48-51: the four asserts, in order
SignatureAsserts(out) ==
    IF ~Contains(out, SIGNER) THEN AssertionError(<<>>, "assert_signer")
    ELSE IF ~Contains(out, INTERMEDIATE) THEN AssertionError(<<>>, "assert_intermediate")
    ELSE IF ~Contains(out, ROOT_CA) THEN AssertionError(<<>>, "assert_root")
    ELSE IF ~Contains(out, TEAM) THEN AssertionError(<<>>, "assert_team")
    ELSE NoExc

\* validate_macos_signature(filename) when codesign answers res:
\* the exception raised (NoExc: it returns), the subprocesses started, the
\* text printed
validate_macos_signature(filename, onHost, res) ==
    IF ~onHost
    THEN [exc |-> AssertionError(<<>>, "assert_which_codesign"),
          started |-> <<>>, print |-> <<>>, tool |-> NoTool]
    ELSE IF res.exit # 0
    THEN [exc |-> CalledProcessError(Flatten(CodesignArgv(filename)), res.out,
                                     "check_output_codesign"),
          started |-> <<CodesignArgv(filename)>>, print |-> <<>>, tool |-> Ran(res)]
    ELSE [exc |-> SignatureAsserts(res.out),
          started |-> <<CodesignArgv(filename)>>, print |-> <<res.out>>, tool |-> Ran(res)]

\* ---- assertPresentAndNotAscii (lines 68-73)
assertPresentAndNotAscii(fn, exists, k) ==
    IF ~exists
    THEN PyException(<<"fn=">> \o fn \o <<" does not exist, did it fail to download?">>,
                     "raise_missing")
    ELSE IF Contains(FileOutput(fn, k), <<"ASCII text">>)
    THEN PyException(<<"fn=">> \o fn \o <<" is of type ">> \o FileOutput(fn, k),
                     "raise_ascii")
    ELSE NoExc

\* ---- validate_slsa (lines 9-42)
TLOG == <<"Verified signature against tlog entry">>
BUILDER == <<"Verified build using builder">>

\* lines the verifier can print on stdout/stderr
VerifierLines ==
    << TLOG \o <<" index 1234", "\n">>,
       BUILDER \o <<" https://github.com/slsa-framework/slsa-github-generator", "\n">>,
       <<"FAILED: ", "no matching tlog entry", "\n">> >>

VerifierTexts == { Flatten(t) : t \in TextsOver(VerifierLines) }
VerifierResults == [exit : {0, 1}, out : VerifierTexts]

\* lines 23-37: the command line of the verifier for one artifact
\* ValidateBinaryArgv taking the branch of lines 32-37 for every artifact
ValidateBinaryArgvPlain(hishtory_binary, filename) ==
    << hishtory_binary, <<"validate-binary">>, filename, AttestationFile(filename) >>

ValidateBinaryArgv(hishtory_binary, filename) ==
    IF IsDarwin(filename)
    THEN << hishtory_binary, <<"validate-binary">>, filename, AttestationFile(filename),
            <<"--is_macos=True">>,
            <<"--macos_unsigned_binary=">> \o UnsignedFile(filename) >>
    ELSE << hishtory_binary, <<"validate-binary">>, filename, AttestationFile(filename) >>

FileArgv(fn) == << <<"file">>, fn >>
ChmodArgv(fn) == << <<"chmod">>, <<"+x">>, fn >>

\* lines 10-13: the checks of the verifier binary before the loop
validate_slsa_enter(hishtory_binary, exists, k) ==
    IF ~exists
    THEN [exc |-> AssertionError(<<>>, "assert_verifier_exists"),
          started |-> <<>>, print |-> <<>>, tool |-> NoTool]
    ELSE LET e == assertPresentAndNotAscii(hishtory_binary, exists, k)
             tool == Ran([exit |-> 0, out |-> FileOutput(hishtory_binary, k)]) IN
         IF e # NoExc
         THEN [exc |-> e, started |-> <<FileArgv(hishtory_binary)>>,
               print |-> <<>>, tool |-> tool]
         ELSE [exc |-> NoExc,
               started |-> <<FileArgv(hishtory_binary), ChmodArgv(hishtory_binary)>>,
               print |-> <<>>, tool |-> tool]

\* AttestationAsserts without the assert of line 39
AttestationAssertsTlogOnly(out) ==
    IF ~Contains(out, TLOG) THEN AssertionError(out, "assert_tlog")
    ELSE NoExc

\* lines 38-39: the two asserts on the verifier's output
AttestationAsserts(out) ==
    IF ~Contains(out, TLOG) THEN AssertionError(out, "assert_tlog")
    ELSE IF ~Contains(out, BUILDER) THEN AssertionError(out, "assert_builder")
    ELSE NoExc

\* lines 15-42: one iteration of the loop over ALL_FILES, the verifier
\* (content kind k) answering res
validate_slsa_file(hishtory_binary, filename, k, res) ==
    LET argv == ValidateBinaryArgv(hishtory_binary, filename) IN
    IF ~Exists(filename)
    THEN [exc |-> AssertionError(<<>>, "assert_artifact_exists"),
          started |-> <<>>, print |-> <<>>, tool |-> NoTool]
    ELSE IF ~Exists(AttestationFile(filename))
    THEN [exc |-> AssertionError(<<>>, "assert_attestation_exists"),
          started |-> <<>>, print |-> <<>>, tool |-> NoTool]
    ELSE IF IsDarwin(filename) /\ ~Exists(UnsignedFile(filename))
    THEN [exc |-> AssertionError(<<>>, "assert_unsigned_exists"),
          started |-> <<>>, print |-> <<>>, tool |-> NoTool]
    ELSE IF ~Executable(k)
    THEN [exc |-> OSError(Flatten(argv), "check_output_verifier"),
          started |-> <<argv>>, print |-> <<>>, tool |-> NoTool]
    ELSE IF res.exit # 0
    THEN [exc |-> CalledProcessError(Flatten(argv), res.out, "check_output_verifier"),
          started |-> <<argv>>, print |-> <<res.out>>, tool |-> Ran(res)]
    ELSE [exc |-> AttestationAsserts(res.out),
          started |-> <<argv>>, print |-> <<>>, tool |-> Ran(res)]

\* ---- validate_hishtory_status (lines 53-66)
StatusArgv(filename) == << filename, <<"status">>, <<"-v">> >>

\* the values of GITHUB_SHA seen by the script: unset is not modelled, the
\* workflow always exports it, but it may be empty
GithubShas == { <<>>, <<"c0ffee">> }
\* the content of the file VERSION
VersionContent == <<"208", "\n">>

\* str.strip() of a text whose only white space is a trailing newline
Strip(text) ==
    IF Len(text) > 0 /\ text[Len(text)] = "\n" THEN SubSeq(text, 1, Len(text) - 1) ELSE text

StatusLines ==
    << <<"hiSHtory: ", "v0.", "208", "\n">>,
       <<"hiSHtory: ", "v0.", "207", "\n">>,
       <<"Commit Hash: ", "c0ffee", "\n">>,
       <<"Commit Hash: ", "0ddba11", "\n">> >>

StatusTexts == { Flatten(t) : t \in TextsOver(StatusLines) }
StatusResults == [exit : {0, 1}, out : StatusTexts]

\* lines 57-66: the asserts on the status report
StatusAsserts(status, deep_validation, git_hash) ==
    IF deep_validation
    THEN IF git_hash = <<>> THEN AssertionError(git_hash, "assert_git_hash")
         ELSE IF ~Contains(status, <<"Commit Hash: ">> \o git_hash)
         THEN AssertionError(status, "assert_commit_hash")
         ELSE IF ~Exists(VersionFile) THEN AssertionError(<<>>, "assert_version_exists")
         ELSE IF ~Contains(status, <<"hiSHtory: ">> \o (<<"v0.">> \o Strip(VersionContent)))
         THEN AssertionError(status, "assert_version")
         ELSE NoExc
    ELSE IF ~Contains(status, <<"hiSHtory: ">>)
         THEN AssertionError(status, "assert_product")
         ELSE NoExc

validate_hishtory_status(filename, deep_validation, k, res, git_hash) ==
    IF ~Exists(filename)
    THEN [exc |-> AssertionError(<<>>, "assert_status_binary_exists"),
          started |-> <<>>, print |-> <<>>, tool |-> NoTool]
    ELSE IF ~Executable(k)
    THEN [exc |-> OSError(Flatten(StatusArgv(filename)), "check_output_status"),
          started |-> <<ChmodArgv(filename), StatusArgv(filename)>>,
          print |-> <<>>, tool |-> NoTool]
    ELSE IF res.exit # 0
    THEN [exc |-> CalledProcessError(Flatten(StatusArgv(filename)), res.out,
                                     "check_output_status"),
          started |-> <<ChmodArgv(filename), StatusArgv(filename)>>,
          print |-> <<>>, tool |-> Ran(res)]
    ELSE [exc |-> StatusAsserts(res.out, deep_validation, git_hash),
          started |-> <<ChmodArgv(filename), StatusArgv(filename)>>,
          print |-> <<>>, tool |-> Ran(res)]

\* ---- main (lines 75-85), one action per call it makes
MaxMissing == 1

\* the hosts the run can start on: at most MaxMissing of the expected files
\* are absent
Hosts == { P \in SUBSET HostPaths : Cardinality(HostPaths \ P) <= MaxMissing }

ExecutedBinaries == { Canon(Verifiers[i]) : i \in 1..Len(Verifiers) }

Entry(check, artifact, by, ok) ==
    [check |-> check, artifact |-> artifact, by |-> by, ok |-> ok]

\* Finish with the exception caught and main going on to its next call
FinishSwallow(ret, entry, pc, i, v) ==
    /\ vexc' = ret.exc
    /\ lastTool' = ret.tool
    /\ printed' = IF ret.print = <<>> THEN printed ELSE ret.print[Len(ret.print)]
    /\ calls' = calls \o ret.started
    /\ log' = Append(log, entry)
    /\ vpc' = pc /\ vi' = i /\ vv' = v
    /\ UNCHANGED <<present, kind, codesignOnHost>>
    /\ UNCHANGED <<signVars, installVars, auditVars, precheckVars>>

\* the effect of one call of main that returned or raised `ret`: an exception
\* is not caught anywhere, it ends the run
Finish(ret, entry, pc, i, v) ==
    /\ vexc' = ret.exc
    /\ lastTool' = ret.tool
    /\ printed' = IF ret.print = <<>> THEN printed ELSE ret.print[Len(ret.print)]
    /\ calls' = calls \o ret.started
    /\ log' = Append(log, entry)
    /\ IF ret.exc = NoExc
       THEN vpc' = pc /\ vi' = i /\ vv' = v
       ELSE vpc' = "failed" /\ UNCHANGED <<vi, vv>>
    /\ UNCHANGED <<present, kind, codesignOnHost>>
    /\ UNCHANGED <<signVars, installVars, auditVars, precheckVars>>

\* the loop of lines 77-79 moves on, or main reaches line 80
SigNextPc == IF vi < Len(ALL_FILES) THEN "sig" ELSE "slsa_enter"
SigNextI == IF vi < Len(ALL_FILES) THEN vi + 1 ELSE 1

\* lines 77-78, an artifact that is not a macOS one: nothing is checked
MainSkipNonDarwin ==
    /\ vpc = "sig"
    /\ ~IsDarwin(ALL_FILES[vi])
    /\ vpc' = SigNextPc
    /\ vi' = SigNextI
    /\ UNCHANGED <<vv, present, kind, codesignOnHost, lastTool, vexc, printed, calls, log>>
    /\ UNCHANGED <<signVars, installVars, auditVars, precheckVars>>

\* line 79
MainValidateMacosSignature ==
    /\ vpc = "sig"
    /\ IsDarwin(ALL_FILES[vi])
    /\ \E res \in CodesignResults(IsMachO(ALL_FILES[vi])) :
         LET ret == validate_macos_signature(ALL_FILES[vi], codesignOnHost, res) IN
         Finish(ret, Entry("Signature-Audited", Canon(ALL_FILES[vi]), <<>>, ret.exc = NoExc),
                SigNextPc, SigNextI, 1)

\* lines 81-82 entering validate_slsa: lines 10-13
MainValidateSlsaEnter ==
    /\ vpc = "slsa_enter"
    /\ LET hb == Verifiers[vv]
           ret == validate_slsa_enter(hb, Exists(hb), kind[Canon(hb)]) IN
       Finish(ret, Entry("Precheck-Passed", Canon(hb), <<>>, ret.exc = NoExc),
              "slsa_loop", 1, vv)

\* SlsaNextPc with line 82 left out
SlsaNextPcOnce == IF vi < Len(ALL_FILES) THEN "slsa_loop" ELSE "status"

\* after the last artifact validate_slsa returns: main calls it again with
\* the installed binary (line 82), then goes on to line 83
SlsaNextPc ==
    IF vi < Len(ALL_FILES) THEN "slsa_loop"
    ELSE IF vv < Len(Verifiers) THEN "slsa_enter" ELSE "status"
SlsaNextI == IF vi < Len(ALL_FILES) THEN vi + 1 ELSE 1
SlsaNextV ==
    IF vi < Len(ALL_FILES) THEN vv
    ELSE IF vv < Len(Verifiers) THEN vv + 1 ELSE 1

\* one iteration of validate_slsa's loop: lines 15-42
MainValidateSlsaFile ==
    /\ vpc = "slsa_loop"
    /\ \E res \in VerifierResults :
         LET hb == Verifiers[vv]
             ret == validate_slsa_file(hb, ALL_FILES[vi], kind[Canon(hb)], res) IN
         Finish(ret, Entry("Attestation-Audited", ALL_FILES[vi], Canon(hb), ret.exc = NoExc),
                SlsaNextPc, SlsaNextI, SlsaNextV)

\* lines 84-85
MainValidateHishtoryStatus ==
    /\ vpc = "status"
    /\ \E res \in StatusResults, git_hash \in GithubShas :
         LET fn == Verifiers[vv]
             ret == validate_hishtory_status(fn, DeepValidation[vv], kind[Canon(fn)],
                                           res, git_hash) IN
         Finish(ret, Entry("Metadata-Audited", Canon(fn), <<>>, ret.exc = NoExc),
                IF vv < Len(Verifiers) THEN "status" ELSE "done", 1,
                IF vv < Len(Verifiers) THEN vv + 1 ELSE vv)

(***************************************************************************)
(* actions-sign.py                                                         *)
(***************************************************************************)
\* the two artifacts main() downloads, prechecks and signs, in the order of
\* lines 9-10, 18-19 and 29-30
MacArtifacts == <<ALL_FILES[4], ALL_FILES[3]>>
MacArtifactSet == { MacArtifacts[i] : i \in 1..Len(MacArtifacts) }

CertificateFile == <<"certificate.p12">>
SignPaths ==
    MacArtifactSet \cup { UnsignedFile(f) : f \in MacArtifactSet } \cup {CertificateFile}

\* the content of a file: what kind of bytes, and whether codesign has
\* embedded a signature in them
Absent == [kind |-> "absent", signed |-> FALSE]
Bytes(k) == [kind |-> k, signed |-> FALSE]
Signed(content) == [kind |-> content.kind, signed |-> TRUE]

\* line 49: (time.time() - startTime)/60 > 20
BudgetMinutes == 20
SecondsPerMinute == 60
\* line 51: time.sleep(5)
PollSleepSeconds == 5

\* how long a request can take: a quick answer, or one that hangs
ShortRequestSeconds == 55
LongRequestSeconds == 1200
RequestSeconds == {ShortRequestSeconds, LongRequestSeconds}

\* what the release server can answer: the asset, or an error page
Statuses == {200, 404, 503}
Responses == [status_code : Statuses, content : { Bytes(k) : k \in Kinds }]
\* r before the first request
NoResponse == [status_code |-> 0, content |-> Absent]

\* BudgetExceeded of a loop without line 49
BudgetNeverExceeded(t, start) == FALSE

\* line 49, `/` being true division
BudgetExceeded(t, start) == (t - start) > BudgetMinutes * SecondsPerMinute

TimeoutError(resp) ==
    [type |-> "Exception",
     msg |-> <<"failed to get url, status_code=", ToString(resp.status_code),
               " body=", ToString(resp.content)>>,
     stdout |-> <<>>, site |-> "raise_timeout"]

\* ---- waitUntilPublished (lines 43-53)
\* line 44
WaitStart ==
    /\ spc = "wait"
    /\ startTime' = now
    /\ polls' = 0
    /\ spc' = "poll"
    /\ UNCHANGED <<si, now, r, written, sfiles, sexc, shNext, shFailed, codesigned,
                   prechecked, preSign>>
    /\ UNCHANGED <<validateVars, installVars, auditVars, precheckVars>>

\* WaitPoll leaving the loop on any status but 404
WaitPollBreakUnless404 ==
    /\ spc = "poll"
    /\ \E resp \in Responses, d \in RequestSeconds :
         /\ r' = resp
         /\ polls' = polls + 1
         /\ now' = now + d
         /\ IF resp.status_code # 404
            THEN spc' = "write" /\ sexc' = sexc
            ELSE IF BudgetExceeded(now + d, startTime)
            THEN spc' = "failed" /\ sexc' = TimeoutError(resp)
            ELSE spc' = "sleep" /\ sexc' = sexc
    /\ UNCHANGED <<si, startTime, written, sfiles, shNext, shFailed, codesigned,
                   prechecked, preSign>>
    /\ UNCHANGED <<validateVars, installVars, auditVars, precheckVars>>

\* WaitPoll reporting the response before the last one in the time-out
WaitPollStaleResponse ==
    /\ spc = "poll"
    /\ \E resp \in Responses, d \in RequestSeconds :
         /\ r' = resp
         /\ polls' = polls + 1
         /\ now' = now + d
         /\ IF resp.status_code = 200
            THEN spc' = "write" /\ sexc' = sexc
            ELSE IF BudgetExceeded(now + d, startTime)
            THEN spc' = "failed" /\ sexc' = TimeoutError(r)
            ELSE spc' = "sleep" /\ sexc' = sexc
    /\ UNCHANGED <<si, startTime, written, sfiles, shNext, shFailed, codesigned,
                   prechecked, preSign>>
    /\ UNCHANGED <<validateVars, installVars, auditVars, precheckVars>>

\* WaitPoll looking at the clock first, then at the status
WaitPollDeadlineFirst ==
    /\ spc = "poll"
    /\ \E resp \in Responses, d \in RequestSeconds :
         /\ r' = resp
         /\ polls' = polls + 1
         /\ now' = now + d
         /\ IF BudgetExceeded(now + d, startTime)
            THEN spc' = "failed" /\ sexc' = TimeoutError(resp)
            ELSE IF resp.status_code = 200
            THEN spc' = "write" /\ sexc' = sexc
            ELSE spc' = "sleep" /\ sexc' = sexc
    /\ UNCHANGED <<si, startTime, written, sfiles, shNext, shFailed, codesigned,
                   prechecked, preSign>>
    /\ UNCHANGED <<validateVars, installVars, auditVars, precheckVars>>

\* lines 46-50: the request of one iteration, which takes d seconds and is
\* answered by resp; the status is looked at first, then the clock
WaitPoll ==
    /\ spc = "poll"
    /\ \E resp \in Responses, d \in RequestSeconds :
         /\ r' = resp
         /\ polls' = polls + 1
         /\ now' = now + d
         /\ IF resp.status_code = 200
            THEN spc' = "write" /\ sexc' = sexc
            ELSE IF BudgetExceeded(now + d, startTime)
            THEN spc' = "failed" /\ sexc' = TimeoutError(resp)
            ELSE spc' = "sleep" /\ sexc' = sexc
    /\ UNCHANGED <<si, startTime, written, sfiles, shNext, shFailed, codesigned,
                   prechecked, preSign>>
    /\ UNCHANGED <<validateVars, installVars, auditVars, precheckVars>>

\* line 51, then the next iteration
WaitSleep ==
    /\ spc = "sleep"
    /\ now' = now + PollSleepSeconds
    /\ spc' = "poll"
    /\ UNCHANGED <<si, startTime, r, polls, written, sfiles, sexc, shNext, shFailed,
                   codesigned, prechecked, preSign>>
    /\ UNCHANGED <<validateVars, installVars, auditVars, precheckVars>>

\* lines 52-53, and the return to main (the locals startTime and r are gone):
\* line 10 after line 9, lines 12-18 after line 10 (sha1sum and file only print)
WaitWrite ==
    /\ spc = "write"
    /\ sfiles' = [sfiles EXCEPT ![MacArtifacts[si]] = r.content]
    /\ written' = Append(written, [path |-> MacArtifacts[si], content |-> r.content])
    /\ IF si < Len(MacArtifacts)
       THEN spc' = "wait" /\ si' = si + 1
       ELSE spc' = "precheck" /\ si' = 1
    /\ startTime' = 0
    /\ r' = NoResponse
    /\ UNCHANGED <<now, polls, sexc, shNext, shFailed, codesigned, prechecked, preSign>>
    /\ UNCHANGED <<validateVars, installVars, auditVars, precheckVars>>

\* ---- notAscii (lines 38-41)
\* what file(1) prints for `fn`; it reports a file it cannot open and exits 0
FileReport(fn, content) ==
    IF content = Absent
    THEN fn \o <<": ", "cannot open (No such file or directory)">>
    ELSE FileOutput(fn, content.kind)

notAscii(fn, content) ==
    IF Contains(FileReport(fn, content), <<"ASCII text">>)
    THEN PyException(<<"fn=">> \o fn \o <<" is of type ">> \o FileReport(fn, content),
                     "raise_ascii")
    ELSE NoExc

\* lines 18-19
MainNotAscii ==
    /\ spc = "precheck"
    /\ LET fn == MacArtifacts[si]
           e == notAscii(fn, sfiles[fn]) IN
       /\ sexc' = e
       /\ IF e # NoExc
          THEN spc' = "failed" /\ UNCHANGED <<si, prechecked>>
          ELSE /\ prechecked' = prechecked \cup {fn}
               /\ IF si < Len(MacArtifacts)
                  THEN spc' = "precheck" /\ si' = si + 1
                  ELSE spc' = "shell" /\ si' = 1
    /\ UNCHANGED <<now, startTime, r, polls, written, sfiles, shNext, shFailed,
                   codesigned, preSign>>
    /\ UNCHANGED <<validateVars, installVars, auditVars, precheckVars>>

\* ---- the script given to os.system (lines 22-31): sh runs its commands
\* one after the other whatever their exit status, and main ignores the
\* status os.system returns
ShellCommands ==
    << "materialize-certificate", "create-keychain", "default-keychain", "unlock-keychain",
       "import-certificate", "set-key-partition-list", "codesign", "codesign" >>
\* the artifact a codesign line of the script names (lines 29-30)
CodesignTarget(n) == MacArtifacts[n - 6]
IsCodesign(n) == ShellCommands[n] = "codesign"

\* codesign can only sign a Mach-O binary; any command can fail
ExitStatuses(n) ==
    IF IsCodesign(n) /\ sfiles[CodesignTarget(n)].kind # "macho" THEN {1} ELSE {0, 1}

\* ShellAfter of a script that runs a failed command again
ShellAfterRetry(n, status) == IF status # 0 THEN n ELSE n + 1

\* what sh does after a command that exited `status`: go on to the next line
ShellAfter(n, status) == n + 1

\* one command of the script
ShellCommand ==
    /\ spc = "shell"
    /\ shNext <= Len(ShellCommands)
    /\ \E status \in ExitStatuses(shNext) :
         /\ shFailed' = IF status # 0 /\ shFailed = 0 THEN shNext ELSE shFailed
         /\ shNext' = ShellAfter(shNext, status)
         /\ IF IsCodesign(shNext)
            THEN /\ codesigned' = Append(codesigned, CodesignTarget(shNext))
                 /\ preSign' = [preSign EXCEPT ![CodesignTarget(shNext)] =
                                   sfiles[CodesignTarget(shNext)]]
                 /\ sfiles' = IF status = 0
                              THEN [sfiles EXCEPT ![CodesignTarget(shNext)] = Signed(@)]
                              ELSE sfiles
            ELSE /\ UNCHANGED <<codesigned, preSign>>
                 /\ sfiles' = IF shNext = 1
                              THEN [sfiles EXCEPT ![CertificateFile] = Bytes("p12")]
                              ELSE sfiles
    /\ UNCHANGED <<spc, si, now, startTime, r, polls, written, sexc, prechecked>>
    /\ UNCHANGED <<validateVars, installVars, auditVars, precheckVars>>

\* lines 33-34: os.system has returned, main prints the checksums and returns
MainReturn ==
    /\ spc = "shell"
    /\ shNext > Len(ShellCommands)
    /\ spc' = "done"
    /\ UNCHANGED <<si, now, startTime, r, polls, written, sfiles, sexc, shNext, shFailed,
                   codesigned, prechecked, preSign>>
    /\ UNCHANGED <<validateVars, installVars, auditVars, precheckVars>>

NextSign ==
    \/ WaitStart
    \/ WaitPoll
    \/ WaitSleep
    \/ WaitWrite
    \/ MainNotAscii
    \/ ShellCommand
    \/ MainReturn

\* the signing job starts in a fresh checkout: none of its files exist
InitSign ==
    /\ spc = "wait"
    /\ si = 1
    /\ now = 0
    /\ startTime = 0
    /\ r = NoResponse
    /\ polls = 0
    /\ written = <<>>
    /\ sfiles = [p \in SignPaths |-> Absent]
    /\ sexc = NoExc
    /\ shNext = 1
    /\ shFailed = 0
    /\ codesigned = <<>>
    /\ prechecked = {}
    /\ preSign = [f \in MacArtifactSet |-> Absent]
    /\ vpc = "idle"
    /\ vi = 1
    /\ vv = 1
    /\ present = {}
    /\ kind = [b \in ExecutedBinaries |-> "macho"]
    /\ codesignOnHost = FALSE
    /\ lastTool = NoTool
    /\ vexc = NoExc
    /\ printed = <<>>
    /\ calls = <<>>
    /\ log = <<>>
    /\ ipc = "idle"
    /\ system = "Linux"
    /\ machine = "x86_64"
    /\ tmpdirEnv = <<>>
    /\ tmpNoexec = FALSE
    /\ selectedKey = "none"
    /\ download_url = <<>>
    /\ downloaded = Absent
    /\ tmpFile = Absent
    /\ executed = <<>>
    /\ exitCode = 0
    /\ iprinted = <<>>
    /\ iexc = NoExc
    /\ iexit = -1
    /\ apc = "idle"
    /\ aOnHost = FALSE
    /\ aRes = [exit |-> 1, out |-> <<>>]
    /\ aStandalone = NotRun
    /\ aInValidate = NotRun
    /\ ppc = "idle"
    /\ pFn = <<>>
    /\ pContent = [kind |-> "absent", signed |-> FALSE]
    /\ pSign = NoExc
    /\ pValidate = NoExc

SpecSign == InitSign /\ [][NextSign]_vars

(***************************************************************************)
(* install.py                                                              *)
(***************************************************************************)
\* what platform.system() and platform.machine() can report
Systems == {"Linux", "Darwin", "Windows"}
Machines == {"x86_64", "aarch64", "armv7l", "armv7", "arm64"}

DownloadKeys ==
    {"linux_amd_64_url", "linux_arm_64_url", "linux_arm_7_url", "darwin_arm_64_url",
     "darwin_amd_64_url"}

\* lines 26-28: the JSON document of the download endpoint, one URL per key
download_options ==
    [k \in DownloadKeys |-> <<"https://github.com/ddworken/hishtory/releases/download/", k>>]

\* PlatformKey with the two Darwin keys exchanged
PlatformKeySwapped(sys, mach) ==
    IF sys = "Linux" /\ mach = "x86_64" THEN "linux_amd_64_url"
    ELSE IF sys = "Linux" /\ mach = "aarch64" THEN "linux_arm_64_url"
    ELSE IF sys = "Linux" /\ mach = "armv7l" THEN "linux_arm_7_url"
    ELSE IF sys = "Darwin" /\ mach = "arm64" THEN "darwin_amd_64_url"
    ELSE IF sys = "Darwin" /\ mach = "x86_64" THEN "darwin_arm_64_url"
    ELSE "none"

\* PlatformKey falling back to the x86-64 Linux build on an unknown platform
PlatformKeyDefault(sys, mach) ==
    IF sys = "Linux" /\ mach = "aarch64" THEN "linux_arm_64_url"
    ELSE IF sys = "Linux" /\ mach = "armv7l" THEN "linux_arm_7_url"
    ELSE IF sys = "Darwin" /\ mach = "arm64" THEN "darwin_arm_64_url"
    ELSE IF sys = "Darwin" /\ mach = "x86_64" THEN "darwin_amd_64_url"
    ELSE "linux_amd_64_url"

\* lines 30-40: the key the if/elif chain subscripts, "none" for the else branch
PlatformKey(sys, mach) ==
    IF sys = "Linux" /\ mach = "x86_64" THEN "linux_amd_64_url"
    ELSE IF sys = "Linux" /\ mach = "aarch64" THEN "linux_arm_64_url"
    ELSE IF sys = "Linux" /\ mach = "armv7l" THEN "linux_arm_7_url"
    ELSE IF sys = "Darwin" /\ mach = "arm64" THEN "darwin_arm_64_url"
    ELSE IF sys = "Darwin" /\ mach = "x86_64" THEN "darwin_amd_64_url"
    ELSE "none"

\* lines 13-24
Cwd == <<"/home/user">>
get_executable_tmpdir(specified_dir, noexec) ==
    IF specified_dir # <<>> THEN specified_dir
    ELSE IF noexec THEN Cwd
    ELSE <<"/tmp", "/">>

\* os.path.join(dir, name)
PathJoin(dir, name) ==
    IF dir[Len(dir)] = "/" THEN dir \o name ELSE dir \o <<"/">> \o name

\* line 47
tmpFilePath == PathJoin(get_executable_tmpdir(tmpdirEnv, tmpNoexec), <<"hishtory-client">>)

\* the exit codes of `hishtory-client install`
ExitCodes == {0, 1, 2, 127}
\* os.system returns the wait status: the exit code in the high byte
WaitStatus(code) == code * 256

\* lines 53-57
InstallCommand(offline, args) ==
    tmpFilePath \o <<" install">>
    \o (IF offline THEN <<" --offline">> ELSE <<>>)
    \o (IF args # <<>> THEN <<" ">> \o args ELSE <<>>)

InstallerArgs == { <<>>, <<"--skip-config-modification">> }

NoBinaryMessage(sys, mach) ==
    <<"No hishtory binary for system=", sys, ", machine=", mach, "!">>
InstallFailedMessage ==
    <<"failed to install downloaded hishtory client via ">> \o tmpFilePath
    \o <<" install (is that directory mounted noexec? Consider setting TMPDIR)!">>
SuccessMessage == <<"Succesfully installed hishtory!">>

\* an uncaught exception ends the interpreter with exit code 1
InstallRaise(e) ==
    /\ iexc' = e
    /\ iexit' = 1
    /\ ipc' = "exited"

\* lines 26-28
InstallFetchOptions ==
    /\ ipc = "options"
    /\ \E ok \in BOOLEAN :
         IF ok
         THEN ipc' = "resolve" /\ UNCHANGED <<iexc, iexit>>
         ELSE InstallRaise(PyException(<<"HTTPError">>, "urlopen_options"))
    /\ UNCHANGED <<system, machine, tmpdirEnv, tmpNoexec, selectedKey, download_url,
                   downloaded, tmpFile, executed, exitCode, iprinted>>
    /\ UNCHANGED <<validateVars, signVars, auditVars, precheckVars>>

\* lines 30-42
InstallResolve ==
    /\ ipc = "resolve"
    /\ LET key == PlatformKey(system, machine) IN
       IF key = "none"
       THEN /\ iprinted' = Append(iprinted, NoBinaryMessage(system, machine))
            /\ iexit' = 1
            /\ ipc' = "exited"
            /\ UNCHANGED <<selectedKey, download_url>>
       ELSE /\ selectedKey' = key
            /\ download_url' = download_options[key]
            /\ ipc' = "download"
            /\ UNCHANGED <<iprinted, iexit>>
    /\ UNCHANGED <<system, machine, tmpdirEnv, tmpNoexec, downloaded, tmpFile, executed,
                   exitCode, iexc>>
    /\ UNCHANGED <<validateVars, signVars, auditVars, precheckVars>>

\* lines 44-45
InstallDownload ==
    /\ ipc = "download"
    /\ \E ok \in BOOLEAN, k \in Kinds :
         IF ok
         THEN /\ downloaded' = Bytes(k)
              /\ executed' = executed
              /\ ipc' = "write"
              /\ UNCHANGED <<iexc, iexit>>
         ELSE /\ InstallRaise(PyException(<<"HTTPError">>, "urlopen_binary"))
              /\ UNCHANGED <<downloaded, executed>>
    /\ UNCHANGED <<system, machine, tmpdirEnv, tmpNoexec, selectedKey, download_url,
                   tmpFile, exitCode, iprinted>>
    /\ UNCHANGED <<validateVars, signVars, auditVars, precheckVars>>

\* lines 47-52
InstallWrite ==
    /\ ipc = "write"
    /\ tmpFile' = downloaded
    /\ executed' = Append(executed, <<"chmod +x ">> \o tmpFilePath)
    /\ ipc' = "run"
    /\ UNCHANGED <<system, machine, tmpdirEnv, tmpNoexec, selectedKey, download_url,
                   downloaded, exitCode, iprinted, iexc, iexit>>
    /\ UNCHANGED <<validateVars, signVars, auditVars, precheckVars>>

\* lines 53-58
InstallRun ==
    /\ ipc = "run"
    /\ \E offline \in BOOLEAN, args \in InstallerArgs, code \in ExitCodes :
         /\ executed' = Append(executed, InstallCommand(offline, args))
         /\ exitCode' = WaitStatus(code)
    /\ ipc' = "finish"
    /\ UNCHANGED <<system, machine, tmpdirEnv, tmpNoexec, selectedKey, download_url,
                   downloaded, tmpFile, iprinted, iexc, iexit>>
    /\ UNCHANGED <<validateVars, signVars, auditVars, precheckVars>>

\* lines 59-62
InstallFinish ==
    /\ ipc = "finish"
    /\ tmpFile' = Absent
    /\ IF exitCode # 0
       THEN /\ InstallRaise(PyException(InstallFailedMessage, "raise_install_failed"))
            /\ UNCHANGED iprinted
       ELSE /\ iprinted' = Append(iprinted, SuccessMessage)
            /\ iexit' = 0
            /\ ipc' = "exited"
            /\ UNCHANGED iexc
    /\ UNCHANGED <<system, machine, tmpdirEnv, tmpNoexec, selectedKey, download_url,
                   downloaded, executed, exitCode>>
    /\ UNCHANGED <<validateVars, signVars, auditVars, precheckVars>>

NextInstall ==
    \/ InstallFetchOptions
    \/ InstallResolve
    \/ InstallDownload
    \/ InstallWrite
    \/ InstallRun
    \/ InstallFinish

\* the installer starts on any platform, with or without TMPDIR set
InitInstall ==
    /\ ipc = "options"
    /\ system \in Systems
    /\ machine \in Machines
    /\ tmpdirEnv \in { <<>>, <<"/var/tmp">> }
    /\ tmpNoexec \in BOOLEAN
    /\ selectedKey = "none"
    /\ download_url = <<>>
    /\ downloaded = Absent
    /\ tmpFile = Absent
    /\ executed = <<>>
    /\ exitCode = 0
    /\ iprinted = <<>>
    /\ iexc = NoExc
    /\ iexit = -1
    /\ vpc = "idle"
    /\ vi = 1
    /\ vv = 1
    /\ present = {}
    /\ kind = [b \in ExecutedBinaries |-> "macho"]
    /\ codesignOnHost = FALSE
    /\ lastTool = NoTool
    /\ vexc = NoExc
    /\ printed = <<>>
    /\ calls = <<>>
    /\ log = <<>>
    /\ spc = "idle"
    /\ si = 1
    /\ now = 0
    /\ startTime = 0
    /\ r = NoResponse
    /\ polls = 0
    /\ written = <<>>
    /\ sfiles = [p \in SignPaths |-> Absent]
    /\ sexc = NoExc
    /\ shNext = 1
    /\ shFailed = 0
    /\ codesigned = <<>>
    /\ prechecked = {}
    /\ preSign = [f \in MacArtifactSet |-> Absent]
    /\ apc = "idle"
    /\ aOnHost = FALSE
    /\ aRes = [exit |-> 1, out |-> <<>>]
    /\ aStandalone = NotRun
    /\ aInValidate = NotRun
    /\ ppc = "idle"
    /\ pFn = <<>>
    /\ pContent = [kind |-> "absent", signed |-> FALSE]
    /\ pSign = NoExc
    /\ pValidate = NoExc

SpecInstall == InitInstall /\ [][NextInstall]_vars

(***************************************************************************)
(* actions-validate-macos-signature.py, applied to the same input as      *)
(* validate_macos_signature of actions-validate.py                        *)
(***************************************************************************)
\* StandaloneAsserts with lines 11 and 12 exchanged
StandaloneAssertsTeamFirst(out) ==
    IF ~Contains(out, SIGNER) THEN AssertionError(<<>>, "assert_signer")
    ELSE IF ~Contains(out, INTERMEDIATE) THEN AssertionError(<<>>, "assert_intermediate")
    ELSE IF ~Contains(out, TEAM) THEN AssertionError(<<>>, "assert_team")
    ELSE IF ~Contains(out, ROOT_CA) THEN AssertionError(<<>>, "assert_root")
    ELSE NoExc

\* lines 9-12 of the stand-alone script
StandaloneAsserts(out) ==
    IF ~Contains(out, SIGNER) THEN AssertionError(<<>>, "assert_signer")
    ELSE IF ~Contains(out, INTERMEDIATE) THEN AssertionError(<<>>, "assert_intermediate")
    ELSE IF ~Contains(out, ROOT_CA) THEN AssertionError(<<>>, "assert_root")
    ELSE IF ~Contains(out, TEAM) THEN AssertionError(<<>>, "assert_team")
    ELSE NoExc

\* main() of the stand-alone script (lines 5-12), sys.argv[1] = argv1
standalone_main(argv1, onHost, res) ==
    IF ~onHost
    THEN [exc |-> AssertionError(<<>>, "assert_which_codesign"),
          started |-> <<>>, print |-> <<>>, tool |-> NoTool]
    ELSE IF res.exit # 0
    THEN [exc |-> CalledProcessError(Flatten(CodesignArgv(argv1)), res.out,
                                     "check_output_codesign"),
          started |-> <<CodesignArgv(argv1)>>, print |-> <<>>, tool |-> Ran(res)]
    ELSE [exc |-> StandaloneAsserts(res.out),
          started |-> <<CodesignArgv(argv1)>>, print |-> <<res.out>>, tool |-> Ran(res)]

\* the file both audits are given
AuditedFile == ALL_FILES[3]

AuditStandalone ==
    /\ apc \in {"none", "in_validate"}
    /\ aStandalone' = standalone_main(AuditedFile, aOnHost, aRes)
    /\ apc' = IF apc = "none" THEN "standalone" ELSE "both"
    /\ UNCHANGED <<aOnHost, aRes, aInValidate>>
    /\ UNCHANGED <<validateVars, signVars, installVars, precheckVars>>

AuditInValidate ==
    /\ apc \in {"none", "standalone"}
    /\ aInValidate' = validate_macos_signature(AuditedFile, aOnHost, aRes)
    /\ apc' = IF apc = "none" THEN "in_validate" ELSE "both"
    /\ UNCHANGED <<aOnHost, aRes, aStandalone>>
    /\ UNCHANGED <<validateVars, signVars, installVars, precheckVars>>

NextAudit ==
    \/ AuditStandalone
    \/ AuditInValidate

\* any codesign availability, any answer of codesign
InitAudit ==
    /\ apc = "none"
    /\ aOnHost \in BOOLEAN
    /\ \E isMachO \in BOOLEAN : aRes \in CodesignResults(isMachO)
    /\ aStandalone = NotRun
    /\ aInValidate = NotRun
    /\ vpc = "idle"
    /\ vi = 1
    /\ vv = 1
    /\ present = {}
    /\ kind = [b \in ExecutedBinaries |-> "macho"]
    /\ codesignOnHost = FALSE
    /\ lastTool = NoTool
    /\ vexc = NoExc
    /\ printed = <<>>
    /\ calls = <<>>
    /\ log = <<>>
    /\ spc = "idle"
    /\ si = 1
    /\ now = 0
    /\ startTime = 0
    /\ r = NoResponse
    /\ polls = 0
    /\ written = <<>>
    /\ sfiles = [p \in SignPaths |-> Absent]
    /\ sexc = NoExc
    /\ shNext = 1
    /\ shFailed = 0
    /\ codesigned = <<>>
    /\ prechecked = {}
    /\ preSign = [f \in MacArtifactSet |-> Absent]
    /\ ipc = "idle"
    /\ system = "Linux"
    /\ machine = "x86_64"
    /\ tmpdirEnv = <<>>
    /\ tmpNoexec = FALSE
    /\ selectedKey = "none"
    /\ download_url = <<>>
    /\ downloaded = Absent
    /\ tmpFile = Absent
    /\ executed = <<>>
    /\ exitCode = 0
    /\ iprinted = <<>>
    /\ iexc = NoExc
    /\ iexit = -1
    /\ ppc = "idle"
    /\ pFn = <<>>
    /\ pContent = [kind |-> "absent", signed |-> FALSE]
    /\ pSign = NoExc
    /\ pValidate = NoExc

SpecAudit == InitAudit /\ [][NextAudit]_vars

(***************************************************************************)
(* The two Integrity Prechecks applied to the same path                    *)
(***************************************************************************)
\* what can be at the path: nothing, a native executable, text, an empty file
PrecheckContents == {Absent} \cup { Bytes(k) : k \in Kinds \cup {"elf", "empty"} }
PrecheckPaths == AllFilesSet \cup {DotSlashAmd64, InstalledBinary}

\* notAscii(pFn) of actions-sign.py
PrecheckInSign ==
    /\ ppc \in {"none", "in_validate"}
    /\ pSign' = notAscii(pFn, pContent)
    /\ ppc' = IF ppc = "none" THEN "in_sign" ELSE "both"
    /\ UNCHANGED <<pFn, pContent, pValidate>>
    /\ UNCHANGED <<validateVars, signVars, installVars, auditVars>>

\* assertPresentAndNotAscii(pFn) of actions-validate.py
PrecheckInValidate ==
    /\ ppc \in {"none", "in_sign"}
    /\ pValidate' = assertPresentAndNotAscii(pFn, pContent # Absent, pContent.kind)
    /\ ppc' = IF ppc = "none" THEN "in_validate" ELSE "both"
    /\ UNCHANGED <<pFn, pContent, pSign>>
    /\ UNCHANGED <<validateVars, signVars, installVars, auditVars>>

NextPrecheck ==
    \/ PrecheckInSign
    \/ PrecheckInValidate

\* any path, any content
InitPrecheck ==
    /\ ppc = "none"
    /\ pFn \in PrecheckPaths
    /\ pContent \in PrecheckContents
    /\ pSign = NoExc
    /\ pValidate = NoExc
    /\ apc = "idle"
    /\ aOnHost = FALSE
    /\ aRes = [exit |-> 1, out |-> <<>>]
    /\ aStandalone = NotRun
    /\ aInValidate = NotRun
    /\ vpc = "idle"
    /\ vi = 1
    /\ vv = 1
    /\ present = {}
    /\ kind = [b \in ExecutedBinaries |-> "macho"]
    /\ codesignOnHost = FALSE
    /\ lastTool = NoTool
    /\ vexc = NoExc
    /\ printed = <<>>
    /\ calls = <<>>
    /\ log = <<>>
    /\ spc = "idle"
    /\ si = 1
    /\ now = 0
    /\ startTime = 0
    /\ r = NoResponse
    /\ polls = 0
    /\ written = <<>>
    /\ sfiles = [p \in SignPaths |-> Absent]
    /\ sexc = NoExc
    /\ shNext = 1
    /\ shFailed = 0
    /\ codesigned = <<>>
    /\ prechecked = {}
    /\ preSign = [f \in MacArtifactSet |-> Absent]
    /\ ipc = "idle"
    /\ system = "Linux"
    /\ machine = "x86_64"
    /\ tmpdirEnv = <<>>
    /\ tmpNoexec = FALSE
    /\ selectedKey = "none"
    /\ download_url = <<>>
    /\ downloaded = Absent
    /\ tmpFile = Absent
    /\ executed = <<>>
    /\ exitCode = 0
    /\ iprinted = <<>>
    /\ iexc = NoExc
    /\ iexit = -1

SpecPrecheck == InitPrecheck /\ [][NextPrecheck]_vars

Next ==
    \/ MainSkipNonDarwin
    \/ MainValidateMacosSignature
    \/ MainValidateSlsaEnter
    \/ MainValidateSlsaFile
    \/ MainValidateHishtoryStatus

\* the validation job starts on a host chosen among Hosts; the other scripts
\* are not running
Init ==
    /\ vpc = "sig"
    /\ vi = 1
    /\ vv = 1
    /\ present \in Hosts
    /\ kind \in [ExecutedBinaries -> Kinds]
    /\ codesignOnHost \in BOOLEAN
    /\ lastTool = NoTool
    /\ vexc = NoExc
    /\ printed = <<>>
    /\ calls = <<>>
    /\ log = <<>>
    /\ spc = "idle"
    /\ si = 1
    /\ now = 0
    /\ startTime = 0
    /\ r = NoResponse
    /\ polls = 0
    /\ written = <<>>
    /\ sfiles = [p \in SignPaths |-> Absent]
    /\ sexc = NoExc
    /\ shNext = 1
    /\ shFailed = 0
    /\ codesigned = <<>>
    /\ prechecked = {}
    /\ preSign = [f \in MacArtifactSet |-> Absent]
    /\ ipc = "idle"
    /\ system = "Linux"
    /\ machine = "x86_64"
    /\ tmpdirEnv = <<>>
    /\ tmpNoexec = FALSE
    /\ selectedKey = "none"
    /\ download_url = <<>>
    /\ downloaded = Absent
    /\ tmpFile = Absent
    /\ executed = <<>>
    /\ exitCode = 0
    /\ iprinted = <<>>
    /\ iexc = NoExc
    /\ iexit = -1
    /\ apc = "idle"
    /\ aOnHost = FALSE
    /\ aRes = [exit |-> 1, out |-> <<>>]
    /\ aStandalone = NotRun
    /\ aInValidate = NotRun
    /\ ppc = "idle"
    /\ pFn = <<>>
    /\ pContent = [kind |-> "absent", signed |-> FALSE]
    /\ pSign = NoExc
    /\ pValidate = NoExc

Spec == Init /\ [][Next]_vars

(***************************************************************************)
(* Claims about actions-validate.py                                        *)
(***************************************************************************)
Last(seq) == seq[Len(seq)]

\* the checks main() makes when nothing fails, in the order of lines 77-85
RECURSIVE SigPlan(_)
SigPlan(i) ==
    IF i > Len(ALL_FILES) THEN <<>>
    ELSE (IF IsDarwin(ALL_FILES[i])
          THEN <<Entry("Signature-Audited", ALL_FILES[i], <<>>, TRUE)>>
          ELSE <<>>) \o SigPlan(i + 1)

SlsaPlan(v) ==
    <<Entry("Precheck-Passed", Canon(Verifiers[v]), <<>>, TRUE)>>
    \o [i \in 1..Len(ALL_FILES) |->
          Entry("Attestation-Audited", ALL_FILES[i], Canon(Verifiers[v]), TRUE)]

StatusPlan ==
    [v \in 1..Len(Verifiers) |-> Entry("Metadata-Audited", Canon(Verifiers[v]), <<>>, TRUE)]

ValidationPlan == SigPlan(1) \o SlsaPlan(1) \o SlsaPlan(2) \o StatusPlan

\* the states of section 4.7 this script can put an artifact in, in order
PathStates == <<"Precheck-Passed", "Signature-Audited", "Attestation-Audited", "Metadata-Audited">>
StateApplies(state, artifact) == state = "Signature-Audited" => IsDarwin(artifact)
PriorStates(state, artifact) ==
    { PathStates[j] : j \in { n \in 1..Len(PathStates) :
        /\ \E m \in 1..Len(PathStates) : PathStates[m] = state /\ n < m
        /\ StateApplies(PathStates[n], artifact) } }
PassedBefore(state, artifact, k) ==
    \E j \in 1..(k - 1) :
        log[j].check = state /\ log[j].artifact = artifact /\ log[j].ok

C3_FirstFailureAborts ==
    /\ \A k \in 1..Len(log) : ~log[k].ok => (k = Len(log) /\ vpc = "failed")
    /\ (vpc = "failed") = (vexc # NoExc)
    /\ vpc = "failed" => (Len(log) > 0 /\ ~Last(log).ok)
    /\ vpc = "done" => (vexc = NoExc /\ \A k \in 1..Len(log) : log[k].ok)

\* once failed, nothing changes any more: no later check, no later subprocess
C3_NothingAfterFailure ==
    [][vpc = "failed" => UNCHANGED <<vpc, log, calls, vexc>>]_vars

\* an attestation audit of the second verifier failed after nine checks passed
C3_Witness ==
    /\ vpc = "failed"
    /\ Len(log) = 10
    /\ Last(log).check = "Attestation-Audited"
    /\ Last(log).artifact = ALL_FILES[2]

\* C5: validate_slsa accepts an artifact exactly when the verifier exited 0
\* and its combined output contains both acknowledgment phrases; when it
\* rejects, the verifier's full output is surfaced (as the assertion's
\* message, or printed before the CalledProcessError is re-raised).
C5_AcceptIffBothPhrases ==
    (Len(log) > 0 /\ Last(log).check = "Attestation-Audited" /\ lastTool.ran) =>
        /\ Last(log).ok =
              (/\ lastTool.exit = 0
               /\ Contains(lastTool.out, TLOG)
               /\ Contains(lastTool.out, BUILDER))
        /\ ~Last(log).ok =>
              /\ vexc.type \in {"AssertionError", "CalledProcessError"}
              /\ (vexc.msg = lastTool.out \/ printed = lastTool.out)

\* the verifier exited 0 and printed the tlog phrase only: rejected
C5_Witness ==
    /\ Len(log) > 0 /\ Last(log).check = "Attestation-Audited" /\ lastTool.ran
    /\ lastTool.exit = 0
    /\ Contains(lastTool.out, TLOG) /\ ~Contains(lastTool.out, BUILDER)
    /\ ~Last(log).ok

\* the input of the artifact of the last check that validate_slsa found absent
AbsentInput ==
    CASE vexc.site = "assert_artifact_exists" -> Last(log).artifact
      [] vexc.site = "assert_attestation_exists" -> AttestationFile(Last(log).artifact)
      [] vexc.site = "assert_unsigned_exists" -> UnsignedFile(Last(log).artifact)

MissingInputSites ==
    {"assert_artifact_exists", "assert_attestation_exists", "assert_unsigned_exists"}

\* C6 as stated: when the binary, its attestation file or (macOS) its
\* unsigned sibling is absent, the attestation audit fails without invoking
\* the verifier, and the failure names the absent file.
C6_MissingInputNamesFile ==
    vexc.site \in MissingInputSites =>
        /\ ~lastTool.ran
        /\ Contains(vexc.msg, AbsentInput)

(***************************************************************************)
(* Claims about actions-sign.py                                            *)
(***************************************************************************)
\* main returned and no command of the signing script failed
SigningSucceeded == spc = "done" /\ shFailed = 0

\* C1 as stated: after a successful signing run each macOS artifact has a
\* sibling '<artifact>-unsigned' holding exactly the bytes the artifact had
\* just before codesign ran on it, while the artifact itself holds the
\* signed, different bytes.
C1_UnsignedSiblingPreserved ==
    SigningSucceeded =>
        \A f \in MacArtifactSet :
            /\ sfiles[UnsignedFile(f)] # Absent
            /\ sfiles[UnsignedFile(f)] = preSign[f]
            /\ sfiles[f].signed
            /\ sfiles[f] # sfiles[UnsignedFile(f)]

\* C4 as stated: when a command of the signing script fails, no later
\* command of it is run and the run does not complete normally.
C4_SigningFailsFast ==
    shFailed # 0 => (shNext = shFailed + 1 /\ spc # "done")

\* C8: in waitUntilPublished a response that is not 200 is followed by
\* another poll as long as the budget is not exceeded, the first 200 ends
\* polling, and the one file written by the call holds the body of that 200
\* response.
C8_State ==
    /\ spc = "write" => r.status_code = 200
    /\ spc = "sleep" => r.status_code # 200
    /\ spc \in {"wait", "poll", "sleep", "write"} => Len(written) = si - 1
    /\ spc \in {"precheck", "shell", "done"} => Len(written) = Len(MacArtifacts)
    /\ \A k \in 1..Len(written) : written[k].path = MacArtifacts[k]

C8_Step ==
    /\ (spc = "poll" /\ spc' # "poll") =>
          /\ written' = written /\ sfiles' = sfiles
          /\ r'.status_code = 200 => spc' = "write"
          /\ (r'.status_code # 200 /\ ~BudgetExceeded(now', startTime)) => spc' = "sleep"
    /\ spc = "sleep" => (spc' = "poll" /\ written' = written /\ sfiles' = sfiles)
    /\ spc = "write" =>
          /\ written' = Append(written, [path |-> MacArtifacts[si], content |-> r.content])
          /\ sfiles' = [sfiles EXCEPT ![MacArtifacts[si]] = r.content]

C8_PollingPersistsThe200Body == [] C8_State /\ [][C8_Step]_vars

\* nine responses that were not 200, then a 200: the first download is written
C8_Witness ==
    /\ spc = "wait" /\ si = 2 /\ polls = 10
    /\ Len(written) = 1 /\ written[1].content = Bytes("macho")
    /\ sfiles[MacArtifacts[1]] = Bytes("macho")

Resolved ==
    \/ ipc \in {"download", "write", "run", "finish"}
    \/ ipc = "exited" /\ iexc.site # "urlopen_options"

\* C10 as stated: each of (Linux, x86_64), (Linux, aarch64), (Linux, armv7),
\* (Darwin, arm64), (Darwin, x86_64) selects the URL under its key.
C10_StatedPairs ==
    << <<"Linux", "x86_64", "linux_amd_64_url">>,
       <<"Linux", "aarch64", "linux_arm_64_url">>,
       <<"Linux", "armv7", "linux_arm_7_url">>,
       <<"Darwin", "arm64", "darwin_arm_64_url">>,
       <<"Darwin", "x86_64", "darwin_amd_64_url">> >>

C10_ResolvesStatedPairs ==
    Resolved =>
        \A i \in 1..Len(C10_StatedPairs) :
            (system = C10_StatedPairs[i][1] /\ machine = C10_StatedPairs[i][2]) =>
                /\ selectedKey = C10_StatedPairs[i][3]
                /\ download_url = download_options[C10_StatedPairs[i][3]]

\* C10 amended: the 32-bit ARM pair the resolver supports is
\* (Linux, armv7l); each of (Linux, x86_64), (Linux, aarch64),
\* (Linux, armv7l), (Darwin, arm64), (Darwin, x86_64) selects the URL under
\* its key, distinct pairs select distinct keys.
C10_SupportedPairs ==
    << <<"Linux", "x86_64", "linux_amd_64_url">>,
       <<"Linux", "aarch64", "linux_arm_64_url">>,
       <<"Linux", "armv7l", "linux_arm_7_url">>,
       <<"Darwin", "arm64", "darwin_arm_64_url">>,
       <<"Darwin", "x86_64", "darwin_amd_64_url">> >>

C10_ResolvesSupportedPairs ==
    /\ \A i, j \in 1..Len(C10_SupportedPairs) :
          i # j => C10_SupportedPairs[i][3] # C10_SupportedPairs[j][3]
    /\ Resolved =>
        \A i \in 1..Len(C10_SupportedPairs) :
            (system = C10_SupportedPairs[i][1] /\ machine = C10_SupportedPairs[i][2]) =>
                /\ selectedKey = C10_SupportedPairs[i][3]
                /\ download_url = download_options[C10_SupportedPairs[i][3]]

\* a 32-bit ARM Linux host has been resolved
C10_Witness ==
    /\ system = "Linux" /\ machine = "armv7l"
    /\ ipc = "download"
    /\ selectedKey = "linux_arm_7_url"

(***************************************************************************)
(* Claims about the two signature audits                                   *)
(***************************************************************************)
AppliedAudits ==
    (IF apc \in {"standalone", "both"} THEN {aStandalone} ELSE {})
    \cup (IF apc \in {"in_validate", "both"} THEN {aInValidate} ELSE {})

HasPhrase(i) == Contains(aRes.out, RequiredPhrases[i])
LacksOnly(i) == ~HasPhrase(i) /\ \A j \in 1..Len(RequiredPhrases) : j # i => HasPhrase(j)

\* C7: either signature audit passes a file only if codesign is on the host,
\* ran successfully and printed all four required substrings; an output
\* lacking exactly one of the four fails the audit, whichever it is; without
\* codesign on the host the audit fails before running anything.
C7_AuditNeedsAllFour ==
    \A o \in AppliedAudits :
        /\ o.exc = NoExc =>
              /\ aOnHost
              /\ aRes.exit = 0
              /\ \A i \in 1..Len(RequiredPhrases) : HasPhrase(i)
        /\ \A i \in 1..Len(RequiredPhrases) : LacksOnly(i) => o.exc # NoExc
        /\ ~aOnHost =>
              /\ o.exc.type = "AssertionError"
              /\ o.exc.site = "assert_which_codesign"
              /\ o.started = <<>>

\* codesign ran and printed everything but the root CA: both audits failed
C7_Witness ==
    /\ apc = "both"
    /\ aOnHost /\ aRes.exit = 0
    /\ LacksOnly(3)
    /\ aStandalone.exc # NoExc /\ aInValidate.exc # NoExc

(***************************************************************************)
(* Further claims about install.py                                         *)
(***************************************************************************)
SupportedPair ==
    \E i \in 1..Len(C10_SupportedPairs) :
        system = C10_SupportedPairs[i][1] /\ machine = C10_SupportedPairs[i][2]

\* C11: on a platform outside the supported pairs the installer ends with
\* exit code 1 after printing a message that contains the system and the
\* machine it observed; nothing is downloaded, written to the temporary
\* directory or executed, then or later.
C11_UnsupportedPlatformStops ==
    (Resolved /\ ~SupportedPair) =>
        /\ ipc = "exited"
        /\ iexit = 1
        /\ Len(iprinted) = 1
        /\ Contains(iprinted[1], <<system>>)
        /\ Contains(iprinted[1], <<machine>>)
        /\ selectedKey = "none" /\ download_url = <<>>
        /\ downloaded = Absent
        /\ tmpFile = Absent
        /\ executed = <<>>

\* a Windows host has been turned away
C11_Witness ==
    /\ system = "Windows" /\ machine = "x86_64"
    /\ ipc = "exited" /\ iexit = 1
    /\ iprinted = <<NoBinaryMessage("Windows", "x86_64")>>

(***************************************************************************)
(* Claims about the Integrity Prechecks                                    *)
(***************************************************************************)
\* what the prechecks applied so far raised
AppliedPrechecks ==
    (IF ppc \in {"in_sign", "both"} THEN {pSign} ELSE {})
    \cup (IF ppc \in {"in_validate", "both"} THEN {pValidate} ELSE {})

TextKinds == {"ascii", "utf8"}

\* C12 as stated: each of the two prechecks fails on a path that does not
\* exist, fails whenever the file is text (ASCII or UTF-8, an HTML error
\* page), and passes on a native executable.
C12_PrecheckRejectsMissingAndText ==
    \A e \in AppliedPrechecks :
        /\ pContent = Absent => e # NoExc
        /\ pContent.kind \in TextKinds => e # NoExc
        /\ pContent.kind \in {"macho", "elf"} => e = NoExc

(***************************************************************************)
(* A run of either script that invokes tooling                             *)
(***************************************************************************)
InitTooling == Init \/ InitSign
NextTooling == Next \/ NextSign
SpecTooling == InitTooling /\ [][NextTooling]_vars

\* a codesign inspection, a validate-binary or a status invocation
IsTooling(argv) ==
    \/ argv[1] = <<"codesign">>
    \/ argv[2] \in { <<"validate-binary">>, <<"status">> }

\* C13: no tooling invocation is issued twice within one run, so none is
\* issued again after it failed: the validation script never repeats a
\* codesign inspection, validate-binary or status argv, and the signing
\* script runs codesign at most once per artifact whatever its exit status.
C13_NoToolingRetried ==
    /\ \A i, j \in 1..Len(calls) :
         (i < j /\ IsTooling(calls[i])) => calls[i] # calls[j]
    /\ \A i, j \in 1..Len(codesigned) : i < j => codesigned[i] # codesigned[j]
    /\ vexc # NoExc => vpc = "failed"

\* the first codesign of the signing script failed and the script ran to its
\* end: each artifact was given to codesign once
C13_Witness ==
    /\ spc = "done"
    /\ shFailed = 7
    /\ codesigned = MacArtifacts

(***************************************************************************)
(* Claims about the installer's outcome                                    *)
(***************************************************************************)
InstallerRanBinary == ipc = "exited" /\ executed # <<>>

\* C14 as stated: the installer's exit code is the exit code of the
\* downloaded binary's install invocation, whatever that code is; when it is
\* non-zero the installer raised an error naming the temporary path and did
\* not print the success message.
C14_ExitCodeIsTheBinarys ==
    InstallerRanBinary =>
        /\ WaitStatus(iexit) = exitCode
        /\ exitCode # 0 =>
             /\ iexc # NoExc
             /\ Contains(iexc.msg, tmpFilePath)
             /\ \A k \in 1..Len(iprinted) : iprinted[k] # SuccessMessage

(***************************************************************************)
(* Claims about what is prechecked before it is signed or executed         *)
(***************************************************************************)
\* the verifier binaries the validation run has made executable or executed
UsedBinaries ==
    { b \in { Verifiers[i] : i \in 1..Len(Verifiers) } :
        \E k \in 1..Len(calls) : calls[k] = ChmodArgv(b) \/ calls[k][1] = b }

PrecheckReturnedFor(b) ==
    \E k \in 1..Len(log) : log[k] = Entry("Precheck-Passed", Canon(b), <<>>, TRUE)

\* the order of the calls alone: codesign runs only after notAscii returned
\* for both artifacts, and a binary is made executable or executed only
\* after assertPresentAndNotAscii returned for it
PrecheckPrecedesUse ==
    /\ codesigned # <<>> => prechecked = MacArtifactSet
    /\ \A b \in UsedBinaries : PrecheckReturnedFor(b)

\* C15 as stated: a text artifact is caught before any signing or execution,
\* that is, besides the order of the calls, codesign is never given a macOS
\* artifact that holds text and no binary that holds text is made executable
\* or executed.
C15_TextCaughtBeforeUse ==
    /\ PrecheckPrecedesUse
    /\ \A k \in 1..Len(codesigned) : preSign[codesigned[k]].kind \notin TextKinds
    /\ \A b \in UsedBinaries : kind[Canon(b)] \notin TextKinds

(***************************************************************************)
(* Claims about the verifier's command line                                *)
(***************************************************************************)
VerifierCalls == { k \in 1..Len(calls) : calls[k][2] = <<"validate-binary">> }
NamesDarwin(f) == \E n \in 1..Len(f) : f[n] = "darwin"
MacFlags(f) == << <<"--is_macos=True">>, <<"--macos_unsigned_binary=">> \o f \o <<"-unsigned">> >>

\* C16: every verifier invocation names an artifact of ALL_FILES and that
\* artifact's attestation; it carries --is_macos=True and
\* --macos_unsigned_binary=<artifact>-unsigned, of the same artifact, exactly
\* when the artifact is a darwin one, and a Linux artifact is invoked with
\* the two paths only; a run that completes has invoked both verifier
\* binaries on every artifact.
C16_MacFlagsIffDarwin ==
    /\ \A k \in VerifierCalls :
         LET argv == calls[k]
             f == argv[3] IN
         /\ f \in AllFilesSet
         /\ argv[4] = f \o <<".intoto.jsonl">>
         /\ IF NamesDarwin(f)
            THEN Len(argv) = 6 /\ SubSeq(argv, 5, 6) = MacFlags(f)
            ELSE Len(argv) = 4
    /\ vpc = "done" =>
         \A f \in AllFilesSet, v \in 1..Len(Verifiers) :
            \E k \in VerifierCalls : calls[k][1] = Verifiers[v] /\ calls[k][3] = f

\* a completed run: darwin artifacts were verified with the flags, Linux ones
\* without
C16_Witness ==
    /\ vpc = "done"
    /\ \E k \in VerifierCalls : Len(calls[k]) = 6 /\ calls[k][3] = ALL_FILES[4]
    /\ \E k \in VerifierCalls : Len(calls[k]) = 4 /\ calls[k][3] = ALL_FILES[1]

(***************************************************************************)
(* Termination of the polling fetch                                        *)
(***************************************************************************)
\* every request returns, every sleep ends and the script goes on running:
\* its steps are taken as long as they are enabled
SpecSignFair ==
    /\ InitSign
    /\ [][NextSign]_vars
    /\ WF_vars(WaitStart)
    /\ WF_vars(WaitPoll)
    /\ WF_vars(WaitSleep)
    /\ WF_vars(WaitWrite)
    /\ WF_vars(MainNotAscii)
    /\ WF_vars(ShellCommand)
    /\ WF_vars(MainReturn)

BudgetSeconds == BudgetMinutes * SecondsPerMinute
TimedOut == sexc.site = "raise_timeout"

\* the fetch has been running no longer than the budget when it sleeps, the
\* budget and one sleep when it sends a request, and the budget and one
\* poll (sleep and request) when it ends
C17_Blocked ==
    /\ spc = "sleep" => now - startTime <= BudgetSeconds
    /\ spc = "poll" => now - startTime <= BudgetSeconds + PollSleepSeconds
    /\ (spc = "write" \/ TimedOut) =>
          now - startTime <= BudgetSeconds + PollSleepSeconds + LongRequestSeconds

\* after the time-out nothing has run and nothing runs
C17_Aborted ==
    TimedOut =>
        /\ spc = "failed"
        /\ Len(written) = si - 1
        /\ prechecked = {}
        /\ codesigned = <<>>
        /\ shNext = 1
C17_AbortedStep == TimedOut => UNCHANGED signVars

\* C17: every polling fetch that is started ends, with its file written or
\* with the time-out raised; it lasts at most the budget plus one poll; and
\* after a time-out the signing run has stopped: no further fetch, no
\* precheck, no codesign.
C17_FetchTerminates ==
    /\ \A i \in 1..Len(MacArtifacts) :
         (spc = "wait" /\ si = i) ~> (Len(written) >= i \/ TimedOut)
    /\ [] C17_Blocked
    /\ [] C17_Aborted
    /\ [][C17_AbortedStep]_vars

\* the first fetch succeeded, the second timed out
C17_Witness ==
    /\ TimedOut
    /\ si = 2
    /\ Len(written) = 1
    /\ now - startTime > BudgetSeconds

(***************************************************************************)
(* The order of the status test and the deadline test                      *)
(***************************************************************************)
C18_State ==
    /\ (spc \in {"sleep", "write"} \/ TimedOut) => polls >= 1
    /\ TimedOut => (r.status_code # 200 /\ sfiles[MacArtifacts[si]] = Absent)

C18_Step ==
    /\ spc = "wait" => (spc' = "poll" /\ sexc' = sexc)
    /\ (spc = "poll" /\ r'.status_code = 200) =>
          (spc' = "write" /\ sexc' = sexc)
    /\ (spc = "write" /\ now - startTime > BudgetSeconds) =>
          /\ sfiles'[MacArtifacts[si]] = r.content
          /\ spc' \in {"wait", "precheck"}
          /\ sexc' = sexc
    /\ (~TimedOut /\ TimedOut') =>
          /\ spc = "poll"
          /\ polls' = polls + 1
          /\ r'.status_code # 200
          /\ written' = written /\ sfiles' = sfiles

\* C18: the status is tested before the deadline: a fetch sends a request
\* before it can fail, a 200 response ends it in success with its body
\* written even when the budget is already exceeded, and the time-out is
\* raised only in the step that received a response other than 200, with
\* nothing written.
C18_StatusBeforeDeadline == [] C18_State /\ [][C18_Step]_vars

\* the first fetch got its 200 after the budget had elapsed and was written
C18_Witness ==
    /\ spc = "wait" /\ si = 2
    /\ now > BudgetSeconds
    /\ Len(written) = 1
    /\ sfiles[MacArtifacts[1]] = written[1].content

(***************************************************************************)
(* Equivalence of the two signature audits                                 *)
(***************************************************************************)
\* C19: given the same file, the same codesign availability and the same
\* answer of codesign, the stand-alone script and validate_macos_signature
\* end the same way: both pass, or both fail with the same exception raised
\* at the same statement (the same first missing substring), having run and
\* printed the same.
C19_AuditsAgree ==
    apc = "both" =>
        /\ (aStandalone.exc = NoExc) <=> (aInValidate.exc = NoExc)
        /\ aStandalone.exc.type = aInValidate.exc.type
        /\ aStandalone.exc.site = aInValidate.exc.site
        /\ aStandalone.started = aInValidate.started
        /\ aStandalone.print = aInValidate.print

\* codesign printed neither the root CA nor the team identifier: both audits
\* failed at the root CA assert
C19_Witness ==
    /\ apc = "both"
    /\ aOnHost /\ aRes.exit = 0
    /\ HasPhrase(1) /\ HasPhrase(2) /\ ~HasPhrase(3) /\ ~HasPhrase(4)
    /\ aStandalone.exc.site = "assert_root"
    /\ aInValidate.exc.site = "assert_root"
====
